---- MODULE Spec2Model ----
(***************************************************************************)
(* Nautical Arduino Monitor: the sketches of                               *)
(* src/Nautical-monitor-con-led-zum.ino (v1.6, the displayMode revision    *)
(* and v1.2) and the sketch listed in src/README.md, as one state machine. *)
(* The variable rev says which sketch is flashed.                          *)
(*                                                                         *)
(* Floats are exact rationals [n, d, kind] (d > 0), NaN is its own kind.   *)
(* Battery voltages use the common denominator VDEN so that comparisons    *)
(* are integer comparisons.                                                *)
(***************************************************************************)
EXTENDS Integers, Sequences, FiniteSets, TLC

VARIABLES
  rev,             \* which sketch runs: "v16", "dm", "v12", "readme"
  pc,              \* position in loop(): "timer" (the if), "button" (handleButton),
                   \* "delay1" / "delay2" (README sketch: at a delay(100) of the if body)
  now,             \* millis(), an unsigned long
  uptime,          \* real milliseconds since the behaviour began
  lastUpdate,      \* unsigned long lastUpdate
  alarmActive,     \* bool alarmActive
  displayMode,     \* String displayMode (displayMode revision)
  detailedMode,    \* bool detailedMode (v1.2)
  buttonPressTime, \* unsigned long buttonPressTime
  lastBlinkTime,   \* static unsigned long lastBlinkTime in updateLEDs
  ledGreen, ledYellow, ledRed,  \* the pins LED_GREEN, LED_YELLOW, LED_RED
  buzzer,          \* TRUE between tone(BUZZER_PIN, ..) and noTone(BUZZER_PIN)
  serial,          \* the lines the last operation wrote to Serial (README sketch: the
                   \* lines the if body has written so far)
  reading,         \* observer: the samples read by the cycle the step just taken
                   \* completed (valid), or of the README cycle in progress (not valid)
  gasLeakSeen,     \* observer: the gasLeak argument of the latest updateLEDs call
  button,          \* the level digitalRead(SWITCH_PIN) returned at the last poll
  hold,            \* observer: the run of consecutive pressed polls in progress
  gesture,         \* observer: what the last handleButton call did
  sched,           \* observer: what the last pass through the timer test did
  call,            \* observer: the function just applied on its own, with its arguments
  silenced,        \* observer: real time of the latest short-press reset that cleared an
                   \* active alarm since the last reporting cycle (-1: none)
  steady,          \* observer: since when Water mode has had a critical level to show
                   \* with the red LED unchanged (real ms; -1: it has none to show)
  doubleBits       \* width of double on the board the sketch is built for: 32 (AVR) or 64

vars == <<rev, pc, now, uptime, lastUpdate, alarmActive, displayMode, detailedMode,
          buttonPressTime, lastBlinkTime, ledGreen, ledYellow, ledRed, buzzer,
          serial, reading, gasLeakSeen, button, hold, gesture, sched, call,
          silenced, steady, doubleBits>>

(***************************************************************************)
(* Bounds of the model                                                     *)
(***************************************************************************)
\* a behaviour starts at boot, or this many ms before millis() wraps
WrapIn == 3000
\* real time explored, in ms
MaxUptime == 10400

(***************************************************************************)
(* Program constants                                                       *)
(***************************************************************************)
UPDATE_INTERVAL == 5000
LONG_PRESS == 2000
BLINK_PERIOD == 500
GAS_THRESHOLD == 500
ADC_MAX == 1023
LOW == 0
HIGH == 1

\* An unsigned long has 32 bits.  It is held as the integer with the same 32 bits read
\* in two's complement: 0 .. 2^31 - 1 are themselves, 2^31 .. 2^32 - 1 are x - 2^32
\* (so 2^32 - 1, the value before millis() wraps to 0, is -1).  LONG_MAX is 2^31 - 1.
LONG_MAX == 2147483647

\* unsigned long a < b
ULess(a, b) == IF (a >= 0) = (b >= 0) THEN a < b ELSE a >= 0

\* unsigned long subtraction a - b, modulo 2^32
USub(a, b) ==
  IF (a >= 0) = (b >= 0) THEN a - b
  ELSE IF a >= 0
    THEN (IF a > LONG_MAX + b THEN (a - LONG_MAX - 1) - (b + LONG_MAX + 1) ELSE a - b)
    ELSE (IF a + LONG_MAX + 1 < b THEN ((a + LONG_MAX + 1) - b) + LONG_MAX + 1 ELSE a - b)

\* unsigned long value of a + b, modulo 2^32: a - (-b)
UAdd(a, b) == USub(a, IF b = -LONG_MAX - 1 THEN b ELSE -b)

(***************************************************************************)
(* float arithmetic, exact                                                 *)
(***************************************************************************)
Float(n, d) == [n |-> n, d |-> d, kind |-> "float"]
NaN == [n |-> 0, d |-> 1, kind |-> "nan"]
Bool(b) == [n |-> IF b THEN 1 ELSE 0, d |-> 1, kind |-> "bool"]

isnan(x) == x.kind = "nan"

\* x + n/d
FAddConst(x, n, d) == IF isnan(x) THEN NaN ELSE Float(x.n * d + n * x.d, x.d * d)

\* x / k for an integer k > 0
FDivConst(x, k) == IF isnan(x) THEN NaN ELSE Float(x.n, x.d * k)

\* x < y, false when either is NaN
FLess(x, y) ==
  /\ ~isnan(x)
  /\ ~isnan(y)
  /\ IF x.d = y.d THEN x.n < y.n ELSE x.n * y.d < y.n * x.d

\* x = y as numbers, false when either is NaN
FEq(x, y) ==
  /\ ~isnan(x)
  /\ ~isnan(y)
  /\ IF x.d = y.d THEN x.n = y.n ELSE x.n * y.d = y.n * x.d

\* faulty variant: the upper limit is not applied
constrain_noUpper(x, lo, hi) == IF FLess(x, lo) THEN lo ELSE x

\* Arduino constrain(x, lo, hi)
constrain(x, lo, hi) == IF FLess(x, lo) THEN lo ELSE IF FLess(hi, x) THEN hi ELSE x

(***************************************************************************)
(* Battery configuration and the channel readers                           *)
(***************************************************************************)
\* denominator of every battery voltage: 1023 (ADC) * 2000
VDEN == 2046000

\* 3.3 * VOLTAGE_DIVIDER_RATIO * calibration, times 2000:
\* 3.3 * 9.5 * 1.02 = 31.977, * 1.01 = 31.6635, * 1.03 = 32.2905
\* min_voltage and max_voltage in tenths of a volt
batteries == <<[min_voltage |-> 118, max_voltage |-> 126, gain |-> 63954],
               [min_voltage |-> 120, max_voltage |-> 146, gain |-> 63327],
               [min_voltage |-> 105, max_voltage |-> 125, gain |-> 64581]>>

\* a voltage given in tenths of a volt, over VDEN
Volts10(v) == Float(v * (VDEN \div 10), VDEN)

min_voltage(i) == Volts10(batteries[i].min_voltage)
max_voltage(i) == Volts10(batteries[i].max_voltage)

\* readBatteryVoltage of battery i (1..3) for the ADC sample raw:
\* raw * 3.3 / 1023 * VOLTAGE_DIVIDER_RATIO * calibration
readBatteryVoltage(i, raw) == Float(raw * batteries[i].gain, VDEN)

\* Arduino map(x, 0, 1023, 0, 100): long arithmetic, truncating division
map(x, in_min, in_max, out_min, out_max) ==
  ((x - in_min) * (out_max - out_min)) \div (in_max - in_min) + out_min

\* readWaterLevel: map(analogRead, 0, 1023, 0, 100) / 100.0
readWaterLevel(raw) == Float(map(raw, 0, ADC_MAX, 0, 100), 100)

\* faulty variant: the shunt amplifier is read around mid-scale, so the sign shows
readCurrent_signed(raw) == Float((raw - 512) * 13200, ADC_MAX)

\* readCurrent: (raw * 3.3 / 1023) / SHUNT_RESISTANCE * SHUNT_CALIBRATION
\* with SHUNT_RESISTANCE = 0.00025 and SHUNT_CALIBRATION = 1.0: raw * 13200 / 1023
readCurrent(raw) == Float(raw * 13200, ADC_MAX)

\* faulty variant: the threshold is off by one
checkGasLeak_above(raw) == raw > GAS_THRESHOLD + 1

\* checkGasLeak: gasLevel > GAS_THRESHOLD
checkGasLeak(raw) == raw > GAS_THRESHOLD

\* calculateSOC: constrain((voltage - minV) / (maxV - minV) * 100.0, 0.0, 100.0);
\* the three arguments are over VDEN, and 100 / (maxV.n - minV.n) is reduced
calculateSOC(voltage, minV, maxV) ==
  constrain(Float(voltage.n - minV.n, (maxV.n - minV.n) \div 100),
            Float(0, 1), Float(100, 1))

(***************************************************************************)
(* The JSON documents and the text lines written to Serial                 *)
(***************************************************************************)
Entry(path, value) == [path |-> path, value |-> value]

\* one serializeJson(doc, Serial); Serial.println().  timestamp is millis(), an
\* unsigned long in the representation described at LONG_MAX
Doc(t, hasSource, values) ==
  [kind |-> "json", values |-> values, text |-> "", source |-> hasSource, timestamp |-> t]

\* one Serial.println(text)
Line(text) ==
  [kind |-> "text", values |-> <<>>, text |-> text, source |-> FALSE, timestamp |-> 0]

\* "electrical.batteries." + String(i) + suffix, for battery i (1..3) at index i-1
BatteryPath(i, suffix) == "electrical.batteries." \o ToString(i - 1) \o suffix

PathsOf(doc) == {doc.values[k].path : k \in 1..Len(doc.values)}

\* the voltage and stateOfCharge entries of battery i, SOC from the same sample
BatteryEntries(i, raw) ==
  <<Entry(BatteryPath(i, ".voltage"), readBatteryVoltage(i, raw)),
    Entry(BatteryPath(i, ".stateOfCharge"),
          FDivConst(calculateSOC(readBatteryVoltage(i, raw), min_voltage(i), max_voltage(i)),
                    100))>>

(***************************************************************************)
(* The reporters.  in is what the sensors return during the cycle:         *)
(* in.bat[i], in.bat2[i] the first and second analogRead of battery i,     *)
(* in.shunt, in.water, in.gas the other ADC samples, in.temp and in.hum    *)
(* what dht.readTemperature() and dht.readHumidity() return (NaN on a      *)
(* failed read).  t is millis() when the document is built.                *)
(***************************************************************************)
RECURSIVE GCD(_, _)
GCD(a, b) == IF b = 0 THEN a ELSE GCD(b, a % b)

\* x * k for an integer k > 0, in lowest terms of k and x.d
FMulConst(x, k) ==
  IF isnan(x) THEN NaN
  ELSE LET g == GCD(k, x.d) IN Float(x.n * (k \div g), x.d \div g)

\* v1.6 sendBatteryData: one read per battery, SOC from that read
sendBatteryData_v16(t, in) ==
  Doc(t, TRUE, BatteryEntries(1, in.bat[1]) \o BatteryEntries(2, in.bat[2])
               \o BatteryEntries(3, in.bat[3]))

\* sendWaterTankData (v1.6 and README)
sendWaterTankData(t, in) ==
  Doc(t, TRUE, <<Entry("tanks.freshWater.0.currentLevel", readWaterLevel(in.water))>>)

\* v1.6 sendCurrentData
sendCurrentData(t, in) ==
  Doc(t, TRUE, <<Entry("electrical.batteries.0.current", readCurrent(in.shunt))>>)

\* v1.6 sendEnvironmentData: both entries always, temperature + 273.15, humidity / 100.0
sendEnvironmentData_v16(t, in) ==
  Doc(t, TRUE, <<Entry("environment.inside.temperature", FAddConst(in.temp, 27315, 100)),
                 Entry("environment.inside.relativeHumidity", FDivConst(in.hum, 100))>>)

\* displayMode revision sendAllData: no source object, humidity as read, no updateLEDs call
sendAllData_dm(t, in) ==
  Doc(t, FALSE,
      BatteryEntries(1, in.bat[1]) \o BatteryEntries(2, in.bat[2])
      \o BatteryEntries(3, in.bat[3])
      \o <<Entry("tanks.freshWater.0.currentLevel", readWaterLevel(in.water)),
           Entry("electrical.batteries.0.current", readCurrent(in.shunt)),
           Entry("environment.inside.temperature", FAddConst(in.temp, 27315, 100)),
           Entry("environment.inside.relativeHumidity", in.hum),
           Entry("safety.gasLeak", Bool(checkGasLeak(in.gas)))>>)

\* v1.2 sendAllData, the document: temperature as read, humidity / 100.0
sendAllData_v12(t, in) ==
  Doc(t, TRUE,
      BatteryEntries(1, in.bat[1]) \o BatteryEntries(2, in.bat[2])
      \o BatteryEntries(3, in.bat[3])
      \o <<Entry("electrical.batteries.0.current", readCurrent(in.shunt)),
           Entry("tanks.freshWater.0.currentLevel", readWaterLevel(in.water)),
           Entry("environment.inside.temperature", in.temp),
           Entry("environment.inside.relativeHumidity", FDivConst(in.hum, 100)),
           Entry("safety.gasLeak", Bool(checkGasLeak(in.gas)))>>)

\* README readBatteryVoltage: raw * 5.0 / 1023.0 * 5.0, over VDEN
readBatteryVoltage_readme(raw) == Float(raw * 50000, VDEN)

\* README battery capacities in Ah
capacity == <<100, 80, 60>>

\* README calculateSOC(index): reads the battery again (raw2)
calculateSOC_readme(i, raw2) ==
  calculateSOC(readBatteryVoltage_readme(raw2), min_voltage(i), max_voltage(i))

\* README sendBatteryData: voltage from the first read, soc and capacity from the second
BatteryEntries_readme(i, raw, raw2) ==
  <<Entry(BatteryPath(i, ".voltage"), readBatteryVoltage_readme(raw)),
    Entry(BatteryPath(i, ".stateOfCharge"), FDivConst(calculateSOC_readme(i, raw2), 100)),
    Entry(BatteryPath(i, ".capacity.remaining"),
          FMulConst(FDivConst(calculateSOC_readme(i, raw2), 100), capacity[i] * 3600))>>

sendBatteryData_readme(t, in) ==
  Doc(t, TRUE, BatteryEntries_readme(1, in.bat[1], in.bat2[1])
               \o BatteryEntries_readme(2, in.bat[2], in.bat2[2])
               \o BatteryEntries_readme(3, in.bat[3], in.bat2[3]))

\* README sendEnvironmentData: an entry only if (!isnan(..))
sendEnvironmentData_readme(t, in) ==
  Doc(t, TRUE,
      (IF ~isnan(in.temp)
         THEN <<Entry("environment.inside.temperature", FAddConst(in.temp, 27315, 100))>>
         ELSE <<>>)
      \o (IF ~isnan(in.hum)
            THEN <<Entry("environment.inside.relativeHumidity", FDivConst(in.hum, 100))>>
            ELSE <<>>))

(***************************************************************************)
(* The order of the sensor reads and serial writes of one reporting cycle  *)
(***************************************************************************)
\* one analogRead or dht read of a channel
Read(ch) == [ch |-> ch, op |-> "read"]
\* one serializeJson(doc, Serial)
Write == [ch |-> "Serial", op |-> "write"]

\* the battery loop of sendBatteryData (v1.6) and sendAllData: one read per battery
io_batteries == <<Read("battery0"), Read("battery1"), Read("battery2")>>
\* README battery loop: readBatteryVoltage(i), then calculateSOC(i) reads again
io_batteries_readme ==
  <<Read("battery0"), Read("battery0"), Read("battery1"), Read("battery1"),
    Read("battery2"), Read("battery2")>>
\* readEnvironment / the two dht reads of sendEnvironmentData
io_environment == <<Read("temperature"), Read("humidity")>>

\* v1.6 loop body: sendBatteryData, sendWaterTankData, sendCurrentData, sendEnvironmentData
io_loop_v16 ==
  io_batteries \o <<Write>> \o <<Read("water"), Write>> \o <<Read("shunt"), Write>>
  \o io_environment \o <<Write>>
\* README loop body: sendBatteryData, sendEnvironmentData, sendWaterTankData
io_loop_readme ==
  io_batteries_readme \o <<Write>> \o io_environment \o <<Write>> \o <<Read("water"), Write>>
\* displayMode revision sendAllData: batteries, water, current, DHT, gas, serializeJson
io_sendAllData_dm ==
  io_batteries \o <<Read("water"), Read("shunt")>> \o io_environment
  \o <<Read("gas"), Write>>
\* v1.2 sendAllData: batteries, current, water, DHT, gas, updateLEDs, serializeJson
io_sendAllData_v12 ==
  io_batteries \o <<Read("shunt"), Read("water")>> \o io_environment
  \o <<Read("gas"), Write>>

(***************************************************************************)
(* Alarm state machine.  o is the record of the sketch's globals and pins: *)
(* alarmActive, ledRed, ledYellow, ledGreen, buzzer, lastBlinkTime,        *)
(* buttonPressTime, displayMode, detailedMode, and out, the lines written  *)
(* to Serial by the running operation.                                     *)
(***************************************************************************)
\* faulty variant: only the first battery is compared with its minimum
allBatteriesOK_firstOnly(voltages) == ~FLess(voltages[1], min_voltage(1))

\* the loop over the batteries: allBatteriesOK
allBatteriesOK(voltages) == \A i \in 1..3 : ~FLess(voltages[i], min_voltage(i))

\* anyBatteryDischarging: current < 0 (for each battery, the same test)
anyBatteryDischarging(current) == \E i \in 1..3 : FLess(current, Float(0, 1))

\* faulty variant: the critical branch lights the red LED and forgets alarmActive
ShowCritical_noAlarm(o) ==
  [o EXCEPT !.ledRed = HIGH, !.ledYellow = LOW, !.ledGreen = LOW]

\* the branch of the critical alarm: red on, yellow and green off, alarmActive = true
ShowCritical(o) ==
  [o EXCEPT !.ledRed = HIGH, !.ledYellow = LOW, !.ledGreen = LOW, !.alarmActive = TRUE]

\* the branch of the warning: yellow on, red and green off, alarmActive = false
ShowWarning(o) ==
  [o EXCEPT !.ledRed = LOW, !.ledYellow = HIGH, !.ledGreen = LOW, !.alarmActive = FALSE]

\* the branch of the normal state: green on, red and yellow off, alarmActive = false
ShowNormal(o) ==
  [o EXCEPT !.ledRed = LOW, !.ledYellow = LOW, !.ledGreen = HIGH, !.alarmActive = FALSE]

\* faulty variant: the blinking branch leaves the green LED as it was
ShowBlink_keepsGreen(o, t) ==
  LET p == IF ~ULess(USub(t, o.lastBlinkTime), BLINK_PERIOD)
             THEN [o EXCEPT !.lastBlinkTime = t,
                            !.ledRed = IF o.ledRed = LOW THEN HIGH ELSE LOW]
             ELSE o
  IN [p EXCEPT !.ledYellow = LOW, !.alarmActive = TRUE]

\* Water mode, low level: the red LED is toggled when 500 ms have passed since the
\* last toggle, yellow and green off, alarmActive = true
ShowBlink(o, t) ==
  LET p == IF ~ULess(USub(t, o.lastBlinkTime), BLINK_PERIOD)
             THEN [o EXCEPT !.lastBlinkTime = t,
                            !.ledRed = IF o.ledRed = LOW THEN HIGH ELSE LOW]
             ELSE o
  IN [p EXCEPT !.ledYellow = LOW, !.ledGreen = LOW, !.alarmActive = TRUE]

\* x > lit for a float x and a double literal lit (0.7, 0.3).  x is the float nearest
\* to a fraction k/100.  Where double is float the literal is a float too and the
\* comparison is the exact one.  Where double has 64 bits x is widened: the float
\* nearest to 0.3 is above the double 0.3 (roundsUp), the float nearest to 0.7 below
\* the double 0.7, so a level equal to the literal compares greater exactly when the
\* float rounds up.
FGreaterLit(x, lit, roundsUp) ==
  FLess(lit, x) \/ (doubleBits = 64 /\ roundsUp /\ FEq(x, lit))

\* faulty variant: the tone needs a gas leak, as in the displayMode revision
Buzzer_v12_gasOnly(o, gasLeak) == [o EXCEPT !.buzzer = o.alarmActive /\ gasLeak]

\* v1.2: if (alarmActive) tone(..) else noTone(..)
Buzzer_v12(o, gasLeak) == [o EXCEPT !.buzzer = o.alarmActive]

\* faulty variant: the tone follows alarmActive alone
Buzzer_dm_anyAlarm(o, gasLeak) == [o EXCEPT !.buzzer = o.alarmActive]

\* displayMode revision: if (alarmActive && gasLeak) tone(..) else noTone(..)
Buzzer_dm(o, gasLeak) == [o EXCEPT !.buzzer = o.alarmActive /\ gasLeak]

\* v1.2 updateLEDs(gasLeak, current, voltages)
updateLEDs_v12(gasLeak, current, voltages, o) ==
  Buzzer_v12(IF gasLeak \/ ~allBatteriesOK(voltages) THEN ShowCritical(o)
             ELSE IF anyBatteryDischarging(current) THEN ShowWarning(o)
             ELSE ShowNormal(o),
             gasLeak)

\* displayMode revision updateLEDs(gasLeak, voltages, waterLevel); current is what
\* readCurrent() returns inside the loop, t is millis()
updateLEDs_dm(gasLeak, voltages, waterLevel, current, t, o) ==
  Buzzer_dm(IF o.displayMode = "Batteries"
              THEN IF gasLeak \/ ~allBatteriesOK(voltages) THEN ShowCritical(o)
                   ELSE IF anyBatteryDischarging(current) THEN ShowWarning(o)
                   ELSE ShowNormal(o)
            ELSE IF o.displayMode = "Water"
              THEN IF gasLeak THEN ShowCritical(o)
                   ELSE IF FGreaterLit(waterLevel, Float(7, 10), FALSE) THEN ShowNormal(o)
                   ELSE IF FGreaterLit(waterLevel, Float(3, 10), TRUE)
                           /\ ~FGreaterLit(waterLevel, Float(7, 10), FALSE)
                     THEN ShowWarning(o)
                   ELSE ShowBlink(o, t)
            ELSE o,
            gasLeak)

(***************************************************************************)
(* Button handling.  level is digitalRead(SWITCH_PIN), t is millis().      *)
(***************************************************************************)
\* the long-press branch: toggle the mode, print it, buttonPressTime = 0
LongPress_dm(o) ==
  [o EXCEPT !.displayMode = IF o.displayMode = "Batteries" THEN "Water" ELSE "Batteries",
            !.out = Append(o.out, Line(IF o.displayMode = "Batteries"
                                         THEN "Modo Agua Activado"
                                         ELSE "Modo Baterias Activado")),  \* "Modo Baterías Activado"
            !.buttonPressTime = 0]

LongPress_v12(o) ==
  [o EXCEPT !.detailedMode = ~o.detailedMode,
            !.out = Append(o.out, Line(IF ~o.detailedMode
                                         THEN "Modo Detallado Activado"
                                         ELSE "Modo Normal Activado")),
            !.buttonPressTime = 0]

\* faulty variant: the reset forgets noTone(BUZZER_PIN)
ResetAlarm_keepsTone(o) ==
  [o EXCEPT !.alarmActive = FALSE, !.ledRed = LOW,
            !.out = Append(o.out, Line("Alarma Restablecida"))]

\* the short-press branch: alarmActive = false, red LED off, noTone, print
ResetAlarm(o) ==
  [o EXCEPT !.alarmActive = FALSE, !.ledRed = LOW, !.buzzer = FALSE,
            !.out = Append(o.out, Line("Alarma Restablecida"))]

\* the released branch of handleButton (both revisions)
Released(t, o) ==
  [(IF o.buttonPressTime # 0 /\ ULess(USub(t, o.buttonPressTime), LONG_PRESS)
      THEN ResetAlarm(o) ELSE o)
   EXCEPT !.buttonPressTime = 0]

\* displayMode revision handleButton
handleButton_dm(level, t, o) ==
  IF level = LOW
    THEN IF o.buttonPressTime = 0 THEN [o EXCEPT !.buttonPressTime = t]
         ELSE IF ~ULess(USub(t, o.buttonPressTime), LONG_PRESS) THEN LongPress_dm(o)
         ELSE o
    ELSE Released(t, o)

\* v1.2 handleButton
handleButton_v12(level, t, o) ==
  IF level = LOW
    THEN IF o.buttonPressTime = 0 THEN [o EXCEPT !.buttonPressTime = t]
         ELSE IF ~ULess(USub(t, o.buttonPressTime), LONG_PRESS) THEN LongPress_v12(o)
         ELSE o
    ELSE Released(t, o)

\* faulty variant: the test compares millis() with a deadline, lastUpdate + UPDATE_INTERVAL
CycleDue_deadline(t, last) == ~ULess(t, UAdd(last, UPDATE_INTERVAL))

\* the timer test of loop(): millis() - lastUpdate >= UPDATE_INTERVAL
CycleDue(t, last) == ~ULess(USub(t, last), UPDATE_INTERVAL)

(***************************************************************************)
(* What the sensors can return                                             *)
(***************************************************************************)
\* a healthy boat: batteries full, no current, tank full, no gas, DHT answering
Nominal ==
  [bat |-> <<600, 600, 600>>, water |-> 800, shunt |-> 0, temp |-> Float(25, 1),
   hum |-> Float(55, 1), gas |-> 500, bat2 |-> <<600, 600, 600>>, valid |-> TRUE]

NoReading == [Nominal EXCEPT !.valid = FALSE]

\* ADC samples of a battery input: below every min_voltage (300), and above (600)
BatRaws == {300, 600}
ShuntRaws == {0, 512}
\* water levels 0.19, 0.30, 0.70 and 0.78
WaterRaws == {200, 307, 717, 800}
\* at the threshold and just above it
GasRaws == {GAS_THRESHOLD, GAS_THRESHOLD + 1}
Temps == {NaN, Float(25, 1)}
Hums == {NaN, Float(55, 1)}

\* the readings of the scheduler runs: Nominal, and Nominal with one channel changed
CycleInputs ==
  {Nominal,
   [Nominal EXCEPT !.bat[1] = 300, !.bat2[1] = 300],
   [Nominal EXCEPT !.bat2[1] = 300],
   [Nominal EXCEPT !.shunt = 512],
   [Nominal EXCEPT !.water = 200],
   [Nominal EXCEPT !.gas = GAS_THRESHOLD + 1],
   [Nominal EXCEPT !.temp = NaN],
   [Nominal EXCEPT !.hum = NaN]}

\* every combination of the channels updateLEDs reads
DeriveInputs ==
  {[Nominal EXCEPT !.bat = <<b1, b2, b3>>, !.bat2 = <<b1, b2, b3>>,
                   !.shunt = c, !.water = w, !.gas = g] :
     b1 \in BatRaws, b2 \in BatRaws, b3 \in BatRaws,
     c \in ShuntRaws, w \in WaterRaws, g \in GasRaws}

\* time that passes between two steps of the sketch, in ms
Deltas == {1999, 2000, 3000}
\* time a reporting cycle takes (sensor reads and serial output), in ms
CycleMs == {100}

voltages(in) == [i \in 1..3 |-> readBatteryVoltage(i, in.bat[i])]

(***************************************************************************)
(* State                                                                   *)
(***************************************************************************)
Cur ==
  [alarmActive |-> alarmActive, ledRed |-> ledRed, ledYellow |-> ledYellow,
   ledGreen |-> ledGreen, buzzer |-> buzzer, lastBlinkTime |-> lastBlinkTime,
   buttonPressTime |-> buttonPressTime, displayMode |-> displayMode,
   detailedMode |-> detailedMode, out |-> <<>>]

Commit(o) ==
  /\ alarmActive' = o.alarmActive
  /\ ledRed' = o.ledRed
  /\ ledYellow' = o.ledYellow
  /\ ledGreen' = o.ledGreen
  /\ buzzer' = o.buzzer
  /\ lastBlinkTime' = o.lastBlinkTime
  /\ buttonPressTime' = o.buttonPressTime
  /\ displayMode' = o.displayMode
  /\ detailedMode' = o.detailedMode
  /\ serial' = o.out

\* the pressed polls since the last released poll: since and last are the real times
\* of the first and of the latest one (-1: none), toggles the mode changes they made,
\* alarm0 is alarmActive before the first one, cycled whether a cycle ran meanwhile
NoHold == [last |-> -1, since |-> -1, toggles |-> 0, alarm0 |-> FALSE, cycled |-> FALSE]

\* the handleButton call just made (kind "none": the step was something else):
\* "pressed" / "toggled" for a pressed poll, "released" / "reset" for a released one;
\* held: real time from the first to the latest pressed poll of the hold it belongs to;
\* toggles, alarm0, cycled: that hold's; armed, diff: buttonPressTime > 0 and
\* millis() - buttonPressTime before the call; mode0, detailed0, lastUpdate0: the
\* values before the call
NoGesture ==
  [kind |-> "none", toggles |-> 0, alarm0 |-> FALSE, cycled |-> FALSE, held |-> 0,
   armed |-> FALSE, diff |-> 0, mode0 |-> "Batteries", detailed0 |-> FALSE, lastUpdate0 |-> 0]
\* fresh: the step just taken was the timer test; ran, diff, elapsed and wrapped
\* describe that test, io the reads and writes of the cycle it ran, in order;
\* startAt, endAt and gap the cycles so far, in real time; silencedFor how long ago
\* at that test the alarm was reset (-1: not since the last cycle)
NoSched ==
  [diff |-> 0, fresh |-> FALSE, ran |-> FALSE, elapsed |-> 0, wrapped |-> FALSE,
   gap |-> -1, startAt |-> -1, endAt |-> 0, io |-> <<>>, silencedFor |-> -1]

\* sc once another step has been taken
Stale(sc) ==
  [sc EXCEPT !.fresh = FALSE, !.ran = FALSE, !.diff = 0, !.elapsed = 0, !.wrapped = FALSE,
             !.io = <<>>, !.silencedFor = -1]

NoCall == [fn |-> "none", args |-> <<>>, result |-> <<>>]

\* clocks: the values of millis() the behaviour may begin at.  0 is the state setup()
\* leaves at boot.  Any other is the state in which a reporting cycle on Nominal
\* samples has just ended at that time, weeks after boot: lastUpdate = millis(),
\* and in v1.2 the green LED lit by that cycle's updateLEDs.
InitOf(revs, modes, clocks) ==
  /\ rev \in revs
  /\ pc = "timer"
  /\ now \in clocks
  /\ uptime = 0
  /\ lastUpdate = now
  /\ alarmActive = FALSE
  /\ displayMode \in modes
  /\ detailedMode = FALSE
  /\ buttonPressTime = 0
  /\ lastBlinkTime = 0
  /\ ledGreen = IF rev = "v12" /\ now # 0 THEN HIGH ELSE LOW
  /\ ledYellow = LOW
  /\ ledRed = LOW
  /\ buzzer = FALSE
  /\ serial = <<>>
  /\ reading = NoReading
  /\ gasLeakSeen = FALSE
  /\ button = HIGH
  /\ hold = NoHold
  /\ gesture = NoGesture
  /\ sched = NoSched
  /\ call = NoCall
  /\ silenced = -1
  /\ steady = -1

\* the board of the README's wiring, an Arduino Mini (AVR): double is float; at boot,
\* or WrapIn ms before millis() wraps
Init ==
  /\ InitOf({"v16", "dm", "v12", "readme"}, {"Batteries"}, {0, USub(0, WrapIn)})
  /\ doubleBits = 32

(***************************************************************************)
(* The environment: time passes                                            *)
(***************************************************************************)
TickUpTo(d, limit) ==
  /\ pc \in {"timer", "button"}
  /\ uptime + d <= limit
  /\ now' = UAdd(now, d)
  /\ uptime' = uptime + d
  /\ serial' = <<>>
  /\ reading' = NoReading
  /\ gesture' = NoGesture
  /\ sched' = Stale(sched)
  /\ UNCHANGED <<rev, pc, lastUpdate, alarmActive, displayMode, detailedMode,
                 buttonPressTime, lastBlinkTime, ledGreen, ledYellow, ledRed, buzzer,
                 gasLeakSeen, button, hold, call, silenced, steady, doubleBits>>

Tick(d) == TickUpTo(d, MaxUptime)

(***************************************************************************)
(* loop(): the timer test and the reporting cycle                          *)
(***************************************************************************)
\* faulty variant: lastUpdate is the time of the test, not the time after the cycle
Stamp_atTest(t0, dur) == t0

\* lastUpdate = millis() at the end of the if body: t0 is millis() at the test,
\* dur the time the body took
Stamp(t0, dur) == UAdd(t0, dur)

\* the samples in are what the Water branch of updateLEDs has as a critical level,
\* the ones that reach its final else: no gas leak, not waterLevel > 0.7, and not
\* waterLevel > 0.3 && waterLevel <= 0.7
WaterCritical(in) ==
  /\ ~checkGasLeak(in.gas)
  /\ ~FGreaterLit(readWaterLevel(in.water), Float(7, 10), FALSE)
  /\ ~(FGreaterLit(readWaterLevel(in.water), Float(3, 10), TRUE)
         /\ ~FGreaterLit(readWaterLevel(in.water), Float(7, 10), FALSE))

\* steady after an operation that left o at real time t: critical says whether
\* the latest samples are a critical level; a change of mode or of the red LED
\* starts the count again
SteadySince(o, critical, t) ==
  IF o.displayMode = "Water" /\ critical
    THEN IF steady >= 0 /\ o.ledRed = ledRed THEN steady ELSE t
    ELSE -1

\* the reads and writes of the if body of the sketch that runs
CycleIO ==
  CASE rev = "v16" -> io_loop_v16
    [] rev = "readme" -> io_loop_readme
    [] rev = "dm" -> io_sendAllData_dm
    [] OTHER -> io_sendAllData_v12

\* at a timer test: the time since the alarm was reset
SilencedFor == IF silenced >= 0 THEN uptime - silenced ELSE -1

\* the if body ran: o holds the globals, pins and the documents written,
\* derives says whether it called updateLEDs
Cycle(o, in, dur, derives) ==
  /\ Commit(o)
  /\ reading' = in
  /\ gasLeakSeen' = IF derives THEN checkGasLeak(in.gas) ELSE gasLeakSeen
  /\ now' = UAdd(now, dur)
  /\ uptime' = uptime + dur
  /\ lastUpdate' = Stamp(now, dur)
  /\ sched' = [fresh |-> TRUE, ran |-> TRUE, diff |-> USub(now, lastUpdate),
               elapsed |-> uptime - sched.endAt, wrapped |-> ULess(now, lastUpdate),
               gap |-> IF sched.startAt < 0 THEN -1 ELSE uptime - sched.startAt,
               startAt |-> uptime, endAt |-> uptime + dur, io |-> CycleIO,
               silencedFor |-> SilencedFor]
  /\ silenced' = -1
  /\ hold' = IF hold.since >= 0 THEN [hold EXCEPT !.cycled = TRUE] ELSE hold
  /\ steady' = SteadySince(o, WaterCritical(in), uptime + dur)

\* the if body was skipped
Idle ==
  /\ Commit(Cur)
  /\ sched' = [sched EXCEPT !.fresh = TRUE, !.ran = FALSE,
                            !.diff = USub(now, lastUpdate),
                            !.elapsed = uptime - sched.endAt,
                            !.wrapped = ULess(now, lastUpdate), !.io = <<>>,
                            !.silencedFor = SilencedFor]
  /\ reading' = NoReading
  /\ UNCHANGED <<now, uptime, lastUpdate, hold, gasLeakSeen, silenced, steady>>

\* v1.6 loop(): four documents, no button
loop_v16 ==
  /\ rev = "v16"
  /\ pc = "timer"
  /\ IF CycleDue(now, lastUpdate)
       THEN \E in \in CycleInputs, dc \in CycleMs :
            Cycle([Cur EXCEPT !.out = <<sendBatteryData_v16(now, in),
                                        sendWaterTankData(now, in),
                                        sendCurrentData(now, in),
                                        sendEnvironmentData_v16(now, in)>>], in, dc, FALSE)
       ELSE Idle
  /\ UNCHANGED <<rev, pc, button, gesture, call, doubleBits>>

\* README loop(), no button: the timer test and, when it is due, sendBatteryData()
\* up to the first delay(100).  in is what the sensors return during this cycle; it is
\* kept in reading, not yet valid, for the two sends that follow.  lastUpdate is not
\* written yet, and the test is not complete (sched.fresh) before the if body ends.
loop_readme ==
  /\ rev = "readme"
  /\ pc = "timer"
  /\ IF CycleDue(now, lastUpdate)
       THEN /\ \E in \in CycleInputs :
                 /\ Commit([Cur EXCEPT !.out = <<sendBatteryData_readme(now, in)>>])
                 /\ reading' = [in EXCEPT !.valid = FALSE]
            /\ sched' = [fresh |-> FALSE, ran |-> FALSE, diff |-> USub(now, lastUpdate),
                         elapsed |-> uptime - sched.endAt, wrapped |-> ULess(now, lastUpdate),
                         gap |-> IF sched.startAt < 0 THEN -1 ELSE uptime - sched.startAt,
                         startAt |-> uptime, endAt |-> sched.endAt, io |-> <<>>,
                         silencedFor |-> SilencedFor]
            /\ pc' = "delay1"
            /\ UNCHANGED <<now, uptime, lastUpdate, hold, gasLeakSeen, silenced, steady>>
       ELSE Idle /\ pc' = pc
  /\ UNCHANGED <<rev, button, gesture, call, doubleBits>>

\* README loop(), in the if body: the first delay(100), then sendEnvironmentData()
\* up to the second delay(100)
readme_delay1 ==
  /\ rev = "readme"
  /\ pc = "delay1"
  /\ Commit([Cur EXCEPT !.out = Append(serial, sendEnvironmentData_readme(UAdd(now, 100),
                                                                         reading))])
  /\ now' = UAdd(now, 100)
  /\ uptime' = uptime + 100
  /\ pc' = "delay2"
  /\ UNCHANGED <<rev, lastUpdate, reading, gasLeakSeen, button, hold, gesture, sched, call,
                 silenced, steady, doubleBits>>

\* README loop(), the end of the if body: the second delay(100), sendWaterTankData(),
\* lastUpdate = millis()
readme_delay2 ==
  /\ rev = "readme"
  /\ pc = "delay2"
  /\ \E dc \in CycleMs :
       /\ now' = UAdd(now, 100 + dc)
       /\ uptime' = uptime + 100 + dc
       /\ lastUpdate' = Stamp(USub(now, 100), 200 + dc)
       /\ sched' = [sched EXCEPT !.fresh = TRUE, !.ran = TRUE,
                                 !.endAt = uptime + 100 + dc, !.io = CycleIO]
  /\ Commit([Cur EXCEPT !.out = Append(serial, sendWaterTankData(UAdd(now, 100), reading))])
  /\ reading' = [reading EXCEPT !.valid = TRUE]
  /\ pc' = "timer"
  /\ UNCHANGED <<rev, gasLeakSeen, button, hold, gesture, call, silenced, steady,
                 doubleBits>>

\* displayMode revision loop(), the if: sendAllData() does not call updateLEDs
loop_dm ==
  /\ rev = "dm"
  /\ pc = "timer"
  /\ IF CycleDue(now, lastUpdate)
       THEN \E in \in CycleInputs, dc \in CycleMs :
            Cycle([Cur EXCEPT !.out = <<sendAllData_dm(now, in)>>], in, dc, FALSE)
       ELSE Idle
  /\ pc' = "button"
  /\ gesture' = NoGesture
  /\ UNCHANGED <<rev, button, call, doubleBits>>

\* v1.2 loop(), the if: sendAllData() reads, calls updateLEDs, then serializes
loop_v12 ==
  /\ rev = "v12"
  /\ pc = "timer"
  /\ IF CycleDue(now, lastUpdate)
       THEN \E in \in CycleInputs, dc \in CycleMs :
            Cycle([updateLEDs_v12(checkGasLeak(in.gas), readCurrent(in.shunt),
                                  voltages(in), Cur)
                   EXCEPT !.out = <<sendAllData_v12(now, in)>>], in, dc, TRUE)
       ELSE Idle
  /\ pc' = "button"
  /\ gesture' = NoGesture
  /\ UNCHANGED <<rev, button, call, doubleBits>>

(***************************************************************************)
(* loop(): the call of handleButton()                                      *)
(***************************************************************************)
\* o is what handleButton returned for the level b read at millis() = now
Poll(o, b) ==
  LET toggled == o.displayMode # displayMode \/ o.detailedMode # detailedMode
      first == hold.since < 0
      h == IF b = LOW
             THEN IF first
                    THEN [since |-> uptime, last |-> uptime,
                          toggles |-> IF toggled THEN 1 ELSE 0,
                          alarm0 |-> alarmActive, cycled |-> FALSE]
                    ELSE [hold EXCEPT !.last = uptime,
                                      !.toggles = @ + (IF toggled THEN 1 ELSE 0)]
             ELSE hold
  IN /\ Commit(o)
     /\ pc' = "timer"
     /\ button' = b
     /\ hold' = IF b = LOW THEN h ELSE NoHold
     /\ gesture' = [kind |-> IF b = LOW
                               THEN (IF toggled THEN "toggled" ELSE "pressed")
                               ELSE (IF Len(o.out) > 0 THEN "reset" ELSE "released"),
                    held |-> IF h.since >= 0 THEN h.last - h.since ELSE 0,
                    toggles |-> h.toggles, alarm0 |-> h.alarm0, cycled |-> h.cycled,
                    armed |-> buttonPressTime # 0,
                    diff |-> USub(now, buttonPressTime),
                    mode0 |-> displayMode, detailed0 |-> detailedMode,
                    lastUpdate0 |-> lastUpdate]
     /\ sched' = Stale(sched)
     /\ reading' = NoReading
     /\ steady' = SteadySince(o, displayMode = "Water" /\ steady >= 0, uptime)
     /\ silenced' = IF alarmActive /\ ~o.alarmActive THEN uptime ELSE silenced
     /\ UNCHANGED <<rev, now, uptime, lastUpdate, gasLeakSeen, call, doubleBits>>

poll_dm(b) ==
  /\ rev = "dm"
  /\ pc = "button"
  /\ Poll(handleButton_dm(b, now, Cur), b)

poll_v12(b) ==
  /\ rev = "v12"
  /\ pc = "button"
  /\ Poll(handleButton_v12(b, now, Cur), b)

Next ==
  \/ \E d \in Deltas : Tick(d)
  \/ loop_v16
  \/ loop_readme
  \/ readme_delay1
  \/ readme_delay2
  \/ loop_dm
  \/ loop_v12
  \/ \E b \in {LOW, HIGH} : poll_dm(b)
  \/ \E b \in {LOW, HIGH} : poll_v12(b)

Spec == Init /\ [][Next]_vars

(***************************************************************************)
(* The readers, the conversions, updateLEDs and handleButton applied on    *)
(* their own, once, to every input of a bounded set.                       *)
(***************************************************************************)
\* voltages handed to calculateSOC: every tenth of a volt from 0 to MaxVolts10 / 10
MaxVolts10 == 200

\* fn is applied, once, to args and returns result
Apply(fn, args, result) ==
  /\ call' = [fn |-> fn, args |-> args, result |-> result]
  /\ UNCHANGED <<rev, pc, now, uptime, lastUpdate, alarmActive, displayMode, detailedMode,
                 buttonPressTime, lastBlinkTime, ledGreen, ledYellow, ledRed, buzzer,
                 serial, reading, gasLeakSeen, button, hold, gesture, sched, silenced,
                 steady, doubleBits>>

\* the stateOfCharge value of battery i for a voltage:
\* calculateSOC(voltage, batteries[i].min_voltage, batteries[i].max_voltage) / 100.0
stateOfCharge(i, voltage) ==
  FDivConst(calculateSOC(voltage, min_voltage(i), max_voltage(i)), 100)

\* for a voltage on the tenth-of-a-volt grid
apply_stateOfCharge ==
  /\ call = NoCall
  /\ \E i \in 1..3, v \in 0..MaxVolts10 :
       Apply("stateOfCharge", <<i, Volts10(v)>>, stateOfCharge(i, Volts10(v)))

\* for the voltage readBatteryVoltage returns for an ADC sample
apply_stateOfCharge_adc ==
  /\ call = NoCall
  /\ \E i \in 1..3, raw \in 0..ADC_MAX :
       Apply("stateOfCharge", <<i, readBatteryVoltage(i, raw)>>,
             stateOfCharge(i, readBatteryVoltage(i, raw)))

\* updateLEDs of the displayMode revision in Water mode for the level readWaterLevel
\* returns for an ADC sample: no gas leak, healthy batteries, millis() = 500, the
\* outputs as setup() left them
apply_updateLEDs_water ==
  /\ call = NoCall
  /\ \E raw \in 0..ADC_MAX :
       Apply("updateLEDs", <<readWaterLevel(raw)>>,
             updateLEDs_dm(FALSE, voltages(Nominal), readWaterLevel(raw),
                           readCurrent(Nominal.shunt), BLINK_PERIOD,
                           [Cur EXCEPT !.displayMode = "Water"]))

\* readCurrent for an ADC sample of the shunt
apply_readCurrent ==
  /\ call = NoCall
  /\ \E raw \in 0..ADC_MAX : Apply("readCurrent", <<raw>>, readCurrent(raw))

\* updateLEDs of sketch r ("dm" in Batteries mode, or "v12") for the current
\* readCurrent returns for an ADC sample, for battery 1 low or not and gas leak or not
apply_updateLEDs_batteries ==
  /\ call = NoCall
  /\ \E r \in {"dm", "v12"}, raw \in 0..ADC_MAX, b \in BatRaws, g \in GasRaws :
       LET in == [Nominal EXCEPT !.shunt = raw, !.bat[1] = b, !.gas = g]
       IN Apply("updateLEDs", <<r, raw, b, g>>,
                IF r = "dm"
                  THEN updateLEDs_dm(checkGasLeak(g), voltages(in), readWaterLevel(in.water),
                                     readCurrent(raw), BLINK_PERIOD, Cur)
                  ELSE updateLEDs_v12(checkGasLeak(g), readCurrent(raw), voltages(in), Cur))

\* the globals and pins a call may find: every combination of the three LEDs,
\* alarmActive, the tone and the display mode; the rest as setup() left it
PriorOutputs ==
  {[Cur EXCEPT !.ledRed = r, !.ledYellow = y, !.ledGreen = g, !.alarmActive = a,
               !.buzzer = b, !.displayMode = m] :
     r \in {LOW, HIGH}, y \in {LOW, HIGH}, g \in {LOW, HIGH},
     a \in BOOLEAN, b \in BOOLEAN, m \in {"Batteries", "Water"}}

\* updateLEDs of sketch r on the samples in, called at millis() = t with the globals
\* and pins p: t is just before or at the first blink period (lastBlinkTime is 0);
\* v1.2 has no display mode and does not read millis()
apply_updateLEDs ==
  /\ call = NoCall
  /\ \E r \in {"dm", "v12"}, in \in DeriveInputs, p \in PriorOutputs,
        t \in {BLINK_PERIOD - 1, BLINK_PERIOD} :
       /\ r = "v12" => (p.displayMode = "Batteries" /\ t = BLINK_PERIOD)
       /\ Apply("derive", <<r, in, p, t>>,
                IF r = "dm"
                  THEN updateLEDs_dm(checkGasLeak(in.gas), voltages(in),
                                     readWaterLevel(in.water), readCurrent(in.shunt), t, p)
                  ELSE updateLEDs_v12(checkGasLeak(in.gas), readCurrent(in.shunt),
                                      voltages(in), p))

\* handleButton of sketch r for the button level read at millis() = t, with the
\* globals and pins p and a press recorded at millis() = 1 or none: t is less than
\* LONG_PRESS after the recorded press, or not
apply_handleButton ==
  /\ call = NoCall
  /\ \E r \in {"dm", "v12"}, level \in {LOW, HIGH}, p \in PriorOutputs, armed \in BOOLEAN,
        t \in {LONG_PRESS, LONG_PRESS + 1} :
       LET o == [p EXCEPT !.buttonPressTime = IF armed THEN 1 ELSE 0]
       IN /\ r = "v12" => p.displayMode = "Batteries"
          /\ Apply("handleButton", <<r, level, o, t>>,
                   IF r = "dm" THEN handleButton_dm(level, t, o)
                   ELSE handleButton_v12(level, t, o))

InitFn == InitOf({"v12"}, {"Batteries"}, {0}) /\ doubleBits \in {32, 64}

NextFn ==
  \/ apply_stateOfCharge
  \/ apply_stateOfCharge_adc
  \/ apply_updateLEDs_water
  \/ apply_readCurrent
  \/ apply_updateLEDs_batteries
  \/ apply_updateLEDs
  \/ apply_handleButton

SpecFn == InitFn /\ [][NextFn]_vars

(***************************************************************************)
(* Claims                                                                  *)
(***************************************************************************)
PressedPoll == gesture.kind \in {"pressed", "toggled"}
ReleasedPoll == gesture.kind \in {"released", "reset"}

\* C1 (as claimed): one continuous hold, i.e. one run of pressed polls, toggles the
\* mode at most once, however long it lasts.
C1_OneTogglePerHold == hold.toggles <= 1

\* C2 (as claimed): when a hold that was seen pressed for at least 2000 ms is released
\* and no reporting cycle ran during it, alarmActive after the released poll is what
\* it was before the press began.
C2_LongPressKeepsAlarm ==
  (ReleasedPoll /\ gesture.held >= LONG_PRESS /\ ~gesture.cycled)
    => alarmActive = gesture.alarm0

\* C3: a released poll that finds a recorded press start (buttonPressTime > 0) less
\* than 2000 ms old clears alarmActive and silences the buzzer on that poll, and
\* leaves the display mode and lastUpdate as they were.
C3_ShortPressResets ==
  (ReleasedPoll /\ gesture.armed /\ ULess(gesture.diff, LONG_PRESS))
    => /\ gesture.kind = "reset"
       /\ alarmActive = FALSE
       /\ buzzer = FALSE
       /\ displayMode = gesture.mode0
       /\ detailedMode = gesture.detailed0
       /\ lastUpdate = gesture.lastUpdate0
       /\ buttonPressTime = 0

\* C3 witness: v1.2, the alarm was sounding when the press began and the short press
\* has silenced it.
C3_Witness ==
  /\ rev = "v12"
  /\ gesture.kind = "reset"
  /\ gesture.armed
  /\ ULess(gesture.diff, LONG_PRESS)
  /\ gesture.alarm0
  /\ ~alarmActive
  /\ ~buzzer

\* the reading the last derivation used has a battery below its min_voltage
LowBattery == \E i \in 1..3 : FLess(voltages(reading)[i], min_voltage(i))

\* updateLEDs has just been applied on its own: the sketch, the samples, the globals
\* and pins it found, and the ones it left
Derived == call.fn = "derive"
D_rev == call.args[1]
D_in == call.args[2]
D_prior == call.args[3]
D_batteryMode == D_rev = "v12" \/ D_prior.displayMode = "Batteries"

\* some battery sample of in is below its min_voltage
LowBatteryIn(in) == \E i \in 1..3 : FLess(voltages(in)[i], min_voltage(i))

\* the outputs of the Critical level: red on, yellow and green off, alarmActive
CriticalOf(o) == o.ledRed = HIGH /\ o.ledYellow = LOW /\ o.ledGreen = LOW /\ o.alarmActive

\* the number of LED pins that are HIGH
LEDsOn(o) == o.ledGreen + o.ledYellow + o.ledRed

\* C4 (as claimed): updateLEDs applied to samples with a battery below its min_voltage
\* leaves the outputs of Critical, whatever the other channels and the display mode.
C4_LowBatteryCriticalAnyMode ==
  (Derived /\ LowBatteryIn(D_in)) => CriticalOf(call.result)

\* C4 (amended): updateLEDs applied to samples with a battery below its min_voltage
\* leaves the outputs of Critical, whatever the other channels, in v1.2 and in the
\* displayMode revision while displayMode is "Batteries".
C4_LowBatteryCritical ==
  (Derived /\ LowBatteryIn(D_in) /\ D_batteryMode) => CriticalOf(call.result)

\* C4 witness: displayMode revision, Batteries mode, only the third battery is low
\* and there is no gas leak.
C4_Witness ==
  /\ Derived
  /\ D_rev = "dm"
  /\ D_prior.displayMode = "Batteries"
  /\ D_in.bat = <<600, 600, 300>>
  /\ ~checkGasLeak(D_in.gas)
  /\ CriticalOf(call.result)

\* C5: updateLEDs applied to samples whose gas sample is above 500 leaves the outputs
\* of Critical (red on, whatever millis() is: not blinking), in either revision, in
\* either display mode, for any batteries and any water level.
C5_GasLeakCritical ==
  (Derived /\ D_in.gas > GAS_THRESHOLD) => CriticalOf(call.result)

\* C5 witness: displayMode revision in Water mode, gas leak, all batteries healthy,
\* tank full.
C5_Witness ==
  /\ Derived
  /\ D_rev = "dm"
  /\ D_prior.displayMode = "Water"
  /\ D_in.gas > GAS_THRESHOLD
  /\ ~LowBatteryIn(D_in)
  /\ D_in.water = 800
  /\ CriticalOf(call.result)

\* C6: at most one of the three LED pins is HIGH.  setup() leaves none HIGH;
\* updateLEDs leaves at most one HIGH whatever it found; handleButton leaves at most
\* one HIGH when it found at most one.  So it holds after any sequence of the two.
C6_LEDsExclusive ==
  /\ (ledGreen + ledYellow + ledRed <= 1)
  /\ Derived => LEDsOn(call.result) <= 1
  /\ (call.fn = "handleButton" /\ LEDsOn(call.args[3]) <= 1) => LEDsOn(call.result) <= 1

\* C6 witness: the displayMode revision in Water mode, low water and no gas leak, found
\* the green LED lit and the blink period over: the red LED alone is lit.
C6_Witness ==
  /\ Derived
  /\ D_rev = "dm"
  /\ D_prior.displayMode = "Water"
  /\ D_in.water = 200
  /\ ~checkGasLeak(D_in.gas)
  /\ D_prior.ledGreen = HIGH
  /\ D_prior.ledRed = LOW
  /\ call.result.ledRed = HIGH
  /\ call.result.ledGreen = LOW
  /\ call.result.ledYellow = LOW

\* C7 (as claimed): updateLEDs leaves the buzzer on only when it detected a gas leak.
C7_BuzzerOnlyOnGas ==
  Derived => (call.result.buzzer => checkGasLeak(D_in.gas))

\* C7 (amended): updateLEDs leaves the buzzer on only with alarmActive set, and in
\* the displayMode revision only when it detected a gas leak; handleButton never
\* starts the tone, and leaves buzzer => alarmActive true when it found it true.  In
\* v1.2 the buzzer follows alarmActive, whatever raised it.
C7_BuzzerOnlyOnAlarm ==
  /\ Derived =>
       (call.result.buzzer
          => (call.result.alarmActive /\ (D_rev = "dm" => checkGasLeak(D_in.gas))))
  /\ call.fn = "handleButton" =>
       /\ call.result.buzzer => call.args[3].buzzer
       /\ (call.args[3].buzzer => call.args[3].alarmActive)
            => (call.result.buzzer => call.result.alarmActive)

\* C7 witness: the displayMode revision sounds the buzzer on a gas leak.
C7_Witness ==
  /\ Derived
  /\ D_rev = "dm"
  /\ call.result.buzzer
  /\ checkGasLeak(D_in.gas)
  /\ ~D_prior.buzzer
  /\ CriticalOf(call.result)

\* some JSON document written by the step just taken has an entry with this path
HasPath(p) ==
  \E k \in 1..Len(serial) : serial[k].kind = "json" /\ p \in PathsOf(serial[k])

HasBatteryEntries ==
  \A i \in 1..3 : HasPath(BatteryPath(i, ".voltage")) /\ HasPath(BatteryPath(i, ".stateOfCharge"))

\* C8 (as claimed): a cycle whose temperature reading is NaN writes no entry with path
\* environment.inside.temperature and still writes the humidity and battery entries;
\* a cycle whose humidity reading is NaN writes no humidity entry and still writes the
\* temperature and battery entries; in every revision.
C8_InvalidReadingOmitted ==
  reading.valid =>
    /\ isnan(reading.temp) =>
         /\ ~HasPath("environment.inside.temperature")
         /\ HasPath("environment.inside.relativeHumidity")
         /\ HasBatteryEntries
    /\ isnan(reading.hum) =>
         /\ ~HasPath("environment.inside.relativeHumidity")
         /\ HasPath("environment.inside.temperature")
         /\ HasBatteryEntries

\* the documents one reporting cycle writes
DocsPerCycle == CASE rev = "v16" -> 4 [] rev = "readme" -> 3 [] OTHER -> 1

\* C9: the timer test runs the cycle exactly when millis() - lastUpdate >= 5000; a pass
\* that runs it writes one cycle's documents and leaves lastUpdate at the time the
\* cycle ended, and it started at least 5000 ms of real time after the previous cycle
\* started; a pass that skips it writes nothing.
C9_CycleEveryInterval ==
  sched.fresh =>
    /\ sched.ran <=> ~ULess(sched.diff, UPDATE_INTERVAL)
    /\ sched.ran =>
         /\ lastUpdate = now
         /\ Len(serial) = DocsPerCycle
         /\ sched.gap >= 0 => sched.gap >= UPDATE_INTERVAL
    /\ ~sched.ran => serial = <<>>

\* C9 witness: a second cycle has just run, 5000 ms or more after the first started.
C9_Witness == sched.fresh /\ sched.ran /\ sched.gap >= UPDATE_INTERVAL /\ lastUpdate = now

\* C10: the timer test runs the cycle exactly when at least 5000 ms of real time have
\* passed since lastUpdate was recorded (the times explored are far below 2^32 ms),
\* also when millis() has wrapped past its maximum in between.
C10_WraparoundSafe ==
  sched.fresh => (sched.ran <=> sched.elapsed >= UPDATE_INTERVAL)

\* C10 witness: millis() wrapped since lastUpdate was recorded, and the cycle ran.
C10_Witness ==
  /\ sched.fresh
  /\ sched.wrapped
  /\ sched.ran
  /\ sched.elapsed >= UPDATE_INTERVAL

\* C11 (as claimed): in the cycle just run, no sensor read comes after a serializeJson.
C11_SampleBeforeTransmit ==
  sched.ran =>
    \A j \in 1..Len(sched.io), k \in 1..Len(sched.io) :
      (j < k /\ sched.io[j].op = "write") => sched.io[k].op # "read"

\* C12: the stateOfCharge value sent for a battery is 0 for every voltage at or below
\* its min_voltage, 1 for every voltage at or above its max_voltage, and
\* (voltage - min_voltage) / (max_voltage - min_voltage) in between, so never outside
\* [0, 1]; for each of the three configured batteries.
C12_SOCInterpolatedClamped ==
  call.fn = "stateOfCharge" =>
    LET i == call.args[1]
        v == call.args[2]
        lo == min_voltage(i)
        hi == max_voltage(i)
        soc == call.result
    IN /\ ~isnan(soc)
       /\ soc.d > 0 /\ 0 <= soc.n /\ soc.n <= soc.d
       /\ ~FLess(lo, v) => soc.n = 0
       /\ ~FLess(v, hi) => soc.n = soc.d
       /\ (FLess(lo, v) /\ FLess(v, hi)) =>
            (soc.n = v.n - lo.n /\ soc.d = hi.n - lo.n)

\* C12 witness: battery 1 (11.8 V to 12.6 V) at 12.4 V, stateOfCharge 0.75.
C12_Witness ==
  /\ call.fn = "stateOfCharge"
  /\ call.args = <<1, Volts10(124)>>
  /\ FEq(call.result, Float(3, 4))

\* C13 (as claimed): every line an operation writes to Serial is a JSON document.
C13_OnlyJSONOnSerial == \A k \in 1..Len(serial) : serial[k].kind = "json"

\* some JSON document written by the step just taken has the entry (p, v)
HasEntry(p, v) ==
  \E k \in 1..Len(serial) :
    /\ serial[k].kind = "json"
    /\ \E j \in 1..Len(serial[k].values) :
         serial[k].values[j].path = p /\ FEq(serial[k].values[j].value, v)

\* C14 (as claimed): a cycle whose temperature reading is valid sends it plus 273.15
\* at environment.inside.temperature, and a cycle whose humidity reading is valid
\* sends it divided by 100 at environment.inside.relativeHumidity; in every revision.
C14_KelvinAndFraction ==
  reading.valid =>
    /\ ~isnan(reading.temp) =>
         HasEntry("environment.inside.temperature",
                  Float(reading.temp.n * 100 + 27315 * reading.temp.d, reading.temp.d * 100))
    /\ ~isnan(reading.hum) =>
         HasEntry("environment.inside.relativeHumidity",
                  Float(reading.hum.n, reading.hum.d * 100))

\* the outputs of the Warning level: yellow on, red and green off, alarmActive false
WarningOf(o) == o.ledYellow = HIGH /\ o.ledRed = LOW /\ o.ledGreen = LOW /\ ~o.alarmActive

\* the outputs of the Normal level: green on, red and yellow off, alarmActive false
NormalOf(o) == o.ledGreen = HIGH /\ o.ledRed = LOW /\ o.ledYellow = LOW /\ ~o.alarmActive

\* C15 (as claimed): with no gas leak and no battery below its min_voltage, in battery
\* mode, updateLEDs shows Warning when the measured current is positive (discharging)
\* and Normal when it is zero or negative.
C15_WarningOnDischarge ==
  (Derived /\ D_batteryMode /\ ~checkGasLeak(D_in.gas) /\ ~LowBatteryIn(D_in)) =>
    IF FLess(Float(0, 1), readCurrent(D_in.shunt))
      THEN WarningOf(call.result)
      ELSE NormalOf(call.result)

\* C16 (as claimed): in the revisions that have updateLEDs, after every reporting
\* cycle run by loop() whose readings have a battery below its min_voltage or a gas
\* leak, alarmActive is true and the red LED is on.
C16_DerivedEachCycle ==
  (sched.ran /\ rev \in {"dm", "v12"} /\ reading.valid
     /\ (LowBattery \/ checkGasLeak(reading.gas)))
    => (alarmActive /\ ledRed = HIGH)

\* C17 (as claimed): in Water mode without gas leak, for every level readWaterLevel can
\* return, updateLEDs shows Normal (green only) above 0.7, Warning (yellow only) from
\* 0.3 to 0.7, both included, and Critical (red, alarmActive) below 0.3.
C17_WaterTiers ==
  (call.fn = "updateLEDs" /\ Len(call.args) = 1) =>
    LET level == call.args[1]
        o == call.result
    IN IF FLess(Float(7, 10), level)
         THEN o.ledGreen = HIGH /\ o.ledYellow = LOW /\ o.ledRed = LOW /\ ~o.alarmActive
       ELSE IF ~FLess(level, Float(3, 10))
         THEN o.ledYellow = HIGH /\ o.ledGreen = LOW /\ o.ledRed = LOW /\ ~o.alarmActive
       ELSE o.ledRed = HIGH /\ o.ledGreen = LOW /\ o.ledYellow = LOW /\ o.alarmActive

\* C18 (as claimed): while Water mode has a critical water level to show, the red LED
\* blinks: it never stays in one state for a whole reporting interval (5000 ms).
C18_CriticalWaterBlinks ==
  steady >= 0 => uptime - steady < UPDATE_INTERVAL

\* C19: readCurrent is never negative for an ADC sample, so anyBatteryDischarging is
\* false for it, and updateLEDs in battery mode never shows Warning: the yellow LED is
\* LOW and the outputs are those of Critical or of Normal.
C19_WarningUnreachable ==
  /\ call.fn = "readCurrent" =>
       (~FLess(call.result, Float(0, 1)) /\ ~anyBatteryDischarging(call.result))
  /\ (call.fn = "updateLEDs" /\ Len(call.args) = 4) =>
       LET o == call.result
       IN /\ o.ledYellow = LOW
          /\ \/ o.ledRed = HIGH /\ o.ledGreen = LOW /\ o.alarmActive
             \/ o.ledGreen = HIGH /\ o.ledRed = LOW /\ ~o.alarmActive

\* the largest current, healthy batteries, no gas leak: the displayMode revision
\* shows Normal
C19_Witness ==
  /\ call.fn = "updateLEDs"
  /\ call.args = <<"dm", ADC_MAX, 600, GAS_THRESHOLD>>
  /\ call.result.ledGreen = HIGH
  /\ call.result.ledYellow = LOW

\* C20: in v1.2 the short-press reset is not latched.  At a timer test made after a
\* short press cleared an active alarm: if the test skips the cycle, the reset is less
\* than 5000 ms old; if it runs the cycle and a battery is still below its min_voltage
\* or gas still leaks, alarmActive is true again and the red LED and the buzzer are on.
C20_ResetNotLatched ==
  (rev = "v12" /\ sched.fresh /\ sched.silencedFor >= 0) =>
    /\ ~sched.ran => sched.silencedFor < UPDATE_INTERVAL
    /\ (sched.ran /\ (LowBattery \/ checkGasLeak(reading.gas)))
         => (alarmActive /\ ledRed = HIGH /\ buzzer)

\* C20 witness: a short press cleared the alarm, and the cycle that has just run
\* found battery 1 still low, without gas leak, and raised it again.
C20_Witness ==
  /\ rev = "v12"
  /\ sched.ran
  /\ sched.silencedFor >= 0
  /\ LowBattery
  /\ ~checkGasLeak(reading.gas)
  /\ alarmActive
  /\ ledRed = HIGH
  /\ buzzer

\* C21: in v1.2, in every state between two operations, alarmActive is true exactly
\* when the red LED is HIGH, and exactly when the buzzer tone is on.
C21_AlarmRedBuzzerAgree ==
  rev = "v12" => ((alarmActive <=> ledRed = HIGH) /\ (alarmActive <=> buzzer))

\* C21 witness: the v1.2 cycle that has just run found a gas leak: alarm, red LED and
\* tone are all on.
C21_Witness ==
  /\ rev = "v12"
  /\ sched.ran
  /\ checkGasLeak(reading.gas)
  /\ alarmActive
  /\ ledRed = HIGH
  /\ buzzer

\* the values of the entries of document doc with path p
ValuesAt(doc, p) == {doc.values[j].value : j \in {k \in 1..Len(doc.values) : doc.values[k].path = p}}

\* C22 (as claimed): in every JSON document written, for each battery i, the
\* stateOfCharge entry is the state of charge of the voltage sent in the same document,
\* and the capacity.remaining entry, where there is one, is that state of charge times
\* the rated capacity times 3600.
C22_SOCFromReportedVoltage ==
  \A k \in 1..Len(serial) :
    serial[k].kind = "json" =>
      \A i \in 1..3 :
        \A v \in ValuesAt(serial[k], BatteryPath(i, ".voltage")) :
          /\ \A soc \in ValuesAt(serial[k], BatteryPath(i, ".stateOfCharge")) :
               FEq(soc, stateOfCharge(i, v))
          /\ \A rem \in ValuesAt(serial[k], BatteryPath(i, ".capacity.remaining")) :
               FEq(rem, FMulConst(stateOfCharge(i, v), capacity[i] * 3600))

====
